---- MODULE Spec2Model ----
(***************************************************************************)
(* AbstractModel (nnsight/models/AbstractModel.py): construction,          *)
(* modulize and __call__, with the collaborators __call__ drives: the      *)
(* Editor scope, the increment hook, Graph.compile, HookModel and          *)
(* intervene.                                                              *)
(*                                                                         *)
(* A dotted name ("l0.w.output.0") is held as the list of its components,  *)
(* that is as name.split("."): <<"l0", "w", "output", "0">>.  The root     *)
(* module's path "" is <<"">>, as "".split(".") is [""].                   *)
(***************************************************************************)
EXTENDS Integers, Sequences, FiniteSets, Bags, TLC

\* Bounds of the model.
MaxSteps == 3        \* decoding steps one fn performs
MaxIncHooks == 2     \* increment hooks on the host when a __call__ begins
MaxModulize == 1     \* modulize calls on one model object

---------------------------------------------------------------------------
\* Module paths of the host.
Root == <<"">>
L0 == <<"l0">>
L1 == <<"l1">>
L0W == <<"l0", "w">>
L1W == <<"l1", "w">>
Missing == <<"zz">>

BaseModules == {Root, L0, L1}
AllPaths == {Root, L0, L1, L0W, L1W}

\* The module _register_increment_hook binds to: the main module.
IncModule == Root

---------------------------------------------------------------------------
\* Edits.
WME(path, name) == [kind |-> "wme", path |-> path, name |-> name]
GE(path) == [kind |-> "ge", path |-> path, name |-> ""]

\* The structure of a module tree: the Edits applied to it, oldest first,
\* over the unedited tree.
ModulesOf(tree) ==
  BaseModules \cup
    {tree[i].path \o <<tree[i].name>> : i \in {j \in 1..Len(tree) : tree[j].kind = "wme"}}

Rewired(tree, p) == \E i \in 1..Len(tree) : tree[i].kind = "ge" /\ tree[i].path = p

CanApply(tree, e) == e.path \in ModulesOf(tree)

ApplyEdit(tree, e) == Append(tree, e)

LastIndexOf(tree, e) ==
  LET S == {i \in 1..Len(tree) : tree[i] = e}
  IN IF S = {} THEN 0 ELSE CHOOSE i \in S : \A j \in S : j <= i

RevertEdit(tree, e) ==
  LET k == LastIndexOf(tree, e)
  IN IF k = 0 THEN tree
     ELSE SubSeq(tree, 1, k - 1) \o SubSeq(tree, k + 1, Len(tree))

HasPathConflict(es) ==
  \E i, j \in 1..Len(es) : i # j /\ es[i].path = es[j].path

---------------------------------------------------------------------------
\* Editor.  st = [tree, log, failed]: the tree, the apply/revert events so
\* far, and the index of the Edit whose apply failed (0: none).
RECURSIVE ApplyFrom(_, _, _)
ApplyFrom(st, es, i) ==
  IF i > Len(es) THEN st
  ELSE IF ~CanApply(st.tree, es[i]) THEN [st EXCEPT !.failed = i]
  ELSE ApplyFrom([st EXCEPT !.tree = ApplyEdit(st.tree, es[i]),
                            !.log = Append(st.log, <<"apply", i>>)], es, i + 1)

RECURSIVE RevertReversed(_, _, _)
RevertReversed(st, es, i) ==
  IF i < 1 THEN st
  ELSE RevertReversed([st EXCEPT !.tree = RevertEdit(st.tree, es[i]),
                                 !.log = Append(st.log, <<"revert", i>>)], es, i - 1)

RECURSIVE RevertForward(_, _, _)
RevertForward(st, es, i) ==
  IF i > Len(es) THEN st
  ELSE RevertForward([st EXCEPT !.tree = RevertEdit(st.tree, es[i]),
                                !.log = Append(st.log, <<"revert", i>>)], es, i + 1)

\* Exit of the scope: revert the Edits in reverse order.
EditorExitForward(st, es) == RevertForward(st, es, 1)

EditorExit(st, es) == RevertReversed(st, es, Len(es))

\* Entry of the scope: apply in list order; when the i-th apply fails, the
\* i-1 applied Edits are reverted before the error propagates.
EditorEnter(tree, es) ==
  LET a == ApplyFrom([tree |-> tree, log |-> <<>>, failed |-> 0], es, 1)
  IN IF a.failed = 0 THEN a
     ELSE EditorExit(a, SubSeq(es, 1, a.failed - 1))

---------------------------------------------------------------------------
\* Dotted names.
DropLastTwo(l) == SubSeq(l, 1, Len(l) - 2)

DropLastOne(l) == SubSeq(l, 1, Len(l) - 1)

\* ".".join(l): the joined string, held as its components again; the join
\* of the empty list is "", the same string as the join of [""].
Join(l) == IF l = <<>> THEN <<"">> ELSE l

ModulePathDropOne(name) == Join(DropLastOne(name))

\* ".".join(name.split(".")[:-2])
ModulePath(name) == Join(DropLastTwo(name))

\* The key intervene looks up: f"{module_path}.{direction}.{iteration}".
Key(path, dir, it) == path \o <<dir, ToString(it)>>

---------------------------------------------------------------------------
\* Graphs.  argument_node_names maps a key to the names of the Nodes bound
\* to that observation; deps maps every other Node to the Nodes it takes
\* as arguments; writeback maps a key to the Nodes marked to replace the value
\* observed there.
NodeNames == {"a", "b", "c", "d", "e"}

Graphs == <<
  \* a = l0.output at iteration 0, b = add(a, 1)
  [argument_node_names |-> (Key(L0, "output", 0) :> {"a"}),
   deps |-> ("b" :> {"a"}), writeback |-> <<>>],
  \* a = the main module's output at iteration 0, b = add(a, 1)
  [argument_node_names |-> (Key(Root, "output", 0) :> {"a"}),
   deps |-> ("b" :> {"a"}), writeback |-> <<>>],
  \* a = l0.output at iteration 1 only; b = l1.input at iteration 1;
  \* c = add(a, b)
  [argument_node_names |-> (Key(L0, "output", 1) :> {"a"}) @@
                           (Key(L1, "input", 1) :> {"b"}),
   deps |-> ("c" :> {"a", "b"}), writeback |-> <<>>],
  \* a = the output of the wrapper modulize adds under l0; b = l0.input
  [argument_node_names |-> (Key(L0W, "output", 0) :> {"a"}) @@
                           (Key(L0, "input", 0) :> {"b"}),
   deps |-> <<>>, writeback |-> <<>>],
  \* a = l0.output at iteration 0, b = add(a, 1) written back there;
  \* c = l0.output at iteration 1, d = add(c, 1) and e = add(c, d) both
  \* written back there
  [argument_node_names |-> (Key(L0, "output", 0) :> {"a"}) @@
                           (Key(L0, "output", 1) :> {"c"}),
   deps |-> ("b" :> {"a"}) @@ ("d" :> {"c"}) @@ ("e" :> {"c", "d"}),
   writeback |-> (Key(L0, "output", 0) :> {"b"}) @@
                 (Key(L0, "output", 1) :> {"d", "e"})]
>>

GraphIds == 1..Len(Graphs)

Keys(g) == DOMAIN Graphs[g].argument_node_names

\* The modules __call__ hands to HookModel.
Modules(g) == {ModulePath(name) : name \in Keys(g)}

\* The module paths the Graph's observation index refers to.
ObservedPaths(g) == {DropLastTwo(k) : k \in Keys(g)}

\* Graph.compile succeeds iff the host has every referenced path.
CompileOk(g, tree) == ObservedPaths(g) \subseteq ModulesOf(tree)

NoValue == <<>>

\* Graph.compile binds the Graph for one execution: per-run state is new.
Compiled(g) ==
  [id |-> g, counter |-> 0, value |-> [n \in NodeNames |-> NoValue],
   fires |-> EmptyBag]

---------------------------------------------------------------------------
\* Node resolution.  A value is <<v, it>>: the value and the iteration it
\* was produced at.
HasValueAt(g, n) == g.value[n] # NoValue /\ g.value[n][2] = g.counter

Deps(g) == Graphs[g.id].deps

DepsReady(g, n) == \A d \in Deps(g)[n] : HasValueAt(g, d)

RECURSIVE SumValues(_, _)
SumValues(g, S) ==
  IF S = {} THEN 0
  ELSE LET d == CHOOSE x \in S : TRUE
       IN g.value[d][1] + SumValues(g, S \ {d})

FireEntry(g, n, ready) == [node |-> n, it |-> g.counter, ready |-> ready]

\* Step 2: bind the observed value to the Nodes of this observation.
BindAllAgain(g, S, v) ==
  [g EXCEPT !.value = [n \in NodeNames |-> IF n \in S THEN <<v, g.counter>> ELSE @[n]],
            !.fires = @ (+) SetToBag({FireEntry(g, n, TRUE) : n \in S})]

BindAll(g, S, v) ==
  LET new == {n \in S : ~HasValueAt(g, n)}
  IN [g EXCEPT !.value = [n \in NodeNames |-> IF n \in new THEN <<v, g.counter>> ELSE @[n]],
               !.fires = @ (+) SetToBag({FireEntry(g, n, TRUE) : n \in new})]

\* Step 3: fire every Node whose arguments all have a value at this iteration.
ReadyNodes(g) ==
  {n \in DOMAIN Deps(g) : ~HasValueAt(g, n) /\ DepsReady(g, n)}

RECURSIVE Propagate(_)
Propagate(g) ==
  LET R == ReadyNodes(g)
  IN IF R = {} THEN g
     ELSE Propagate(
       [g EXCEPT !.value = [n \in NodeNames |->
                              IF n \in R
                              THEN <<SumValues(g, {d \in Deps(g)[n] : g.value[d] # NoValue}) + 1,
                                     g.counter>>
                              ELSE @[n]],
                 !.fires = @ (+) SetToBag({FireEntry(g, n, DepsReady(g, n)) : n \in R})])

\* The Nodes marked write-back at key that fired between g and g2.
WritebackFired(g, g2, key) ==
  IF key \in DOMAIN Graphs[g.id].writeback
  THEN {n \in Graphs[g.id].writeback[key] : HasValueAt(g2, n) /\ ~HasValueAt(g, n)}
  ELSE {}

\* Step 4, the value handed back: the write-back's result, else the
\* observed value.
Returned(g2, W, v) ==
  IF Cardinality(W) = 1 THEN g2.value[CHOOSE n \in W : TRUE][1] ELSE v

\* Step 4, the hard error: more than one write-back at this point.
Conflict(W) == Cardinality(W) > 1

\* intervene(activations, module_path, graph, direction) at host step k.
\* r = [g, log, v, seen, conflict]: the Graph, the record of the
\* observations handled, the value the host goes on with, the observations
\* handled at this module boundary, and whether ConflictingWriteback is raised.
Intervene(r, path, dir, k, v) ==
  LET g == r.g
      key == Key(path, dir, g.counter)
      g2 == IF key \in Keys(g.id)
            THEN Propagate(BindAll(g, Graphs[g.id].argument_node_names[key], v))
            ELSE g
      W == WritebackFired(g, g2, key)
      out == Returned(g2, W, v)
      seen == [path |-> path, dir |-> dir, iter |-> k, counter |-> g.counter,
               observed |-> v, applied |-> {<<n, g2.value[n][1]>> : n \in W},
               out |-> out, raised |-> Conflict(W)]
  IN [g |-> g2,
      log |-> r.log \cup {seen},
      v |-> out,
      seen |-> r.seen \cup {seen},
      conflict |-> r.conflict \/ Conflict(W)]

\* Graph.increment()
Increment(g) == [g EXCEPT !.counter = @ + 1]

---------------------------------------------------------------------------
\* Hooks of the host.  h = [fwd, pre]: per module, the forward hooks and the
\* forward pre-hooks in registration order.
NoHooks == [fwd |-> [p \in AllPaths |-> <<>>], pre |-> [p \in AllPaths |-> <<>>]]

IsInc(t) == t = "inc"
IsObs(t) == t = "obs"
NotObs(t) == t # "obs"

IncCount(h) == Len(SelectSeq(h.fwd[IncModule], IsInc))

ObsFwd(h) == {p \in AllPaths : SelectSeq(h.fwd[p], IsObs) # <<>>}
ObsPre(h) == {p \in AllPaths : SelectSeq(h.pre[p], IsObs) # <<>>}

\* HookModel entry: an input and an output observation on each given module.
HookModelEnter(h, ms) ==
  [fwd |-> [p \in AllPaths |-> IF p \in ms THEN Append(h.fwd[p], "obs") ELSE h.fwd[p]],
   pre |-> [p \in AllPaths |-> IF p \in ms THEN Append(h.pre[p], "obs") ELSE h.pre[p]]]

\* HookModel exit: detach what the entry attached.
HookModelExit(h, ms) ==
  [fwd |-> [p \in AllPaths |-> IF p \in ms THEN SelectSeq(h.fwd[p], NotObs) ELSE h.fwd[p]],
   pre |-> [p \in AllPaths |-> IF p \in ms THEN SelectSeq(h.pre[p], NotObs) ELSE h.pre[p]]]

\* The hook is appended to the main module's forward hooks.
RegisterIncrementHook(h) == [h EXCEPT !.fwd[IncModule] = Append(@, "inc")]

\* increment_hook.remove(): the handle of the hook registered last.
RemoveIncrementHook(h) ==
  LET l == h.fwd[IncModule]
      S == {i \in 1..Len(l) : l[i] = "inc"}
      k == IF S = {} THEN 0 ELSE CHOOSE i \in S : \A j \in S : j <= i
  IN IF k = 0 THEN h
     ELSE [h EXCEPT !.fwd[IncModule] = SubSeq(l, 1, k - 1) \o SubSeq(l, k + 1, Len(l))]

---------------------------------------------------------------------------
\* The host's execution.
ModIndex(p) ==
  CASE p = Root -> 0 [] p = L0 -> 1 [] p = L1 -> 2 [] p = L0W -> 3 [] OTHER -> 4

\* The activation the host has at a module boundary of step k, where act is
\* the value it went on with after the boundary before: a step starts from
\* a new input, l0 and l1 compute, every other boundary passes the value on.
HostValue(p, dir, k, act) ==
  IF p = Root /\ dir = "input" THEN 100 * k
  ELSE IF dir = "output" /\ p \in {L0, L1} THEN act + 10 * ModIndex(p) + 5
  ELSE act

Ev(p, dir) == [path |-> p, dir |-> dir]

\* One call of a module: its input, the wrapper its rewired forward passes
\* the data through, its output.
Visit(tree, p) ==
  <<Ev(p, "input")>>
  \o (IF Rewired(tree, p) /\ (p \o <<"w">>) \in ModulesOf(tree)
      THEN <<Ev(p \o <<"w">>, "input"), Ev(p \o <<"w">>, "output")>>
      ELSE <<>>)
  \o <<Ev(p, "output")>>

\* One decoding step: the main module calls l0 (twice when it is shared),
\* then l1, and returns.
StepEvents(tree, sh) ==
  <<Ev(Root, "input")>>
  \o Visit(tree, L0)
  \o (IF sh THEN Visit(tree, L0) ELSE <<>>)
  \o Visit(tree, L1)
  \o <<Ev(Root, "output")>>

\* input_hook / output_hook: the value intervene returns is the hook's.
ObservationHookDiscards(r, p, dir, k) == [Intervene(r, p, dir, k, r.v) EXCEPT !.v = r.v]

ObservationHook(r, p, dir, k) == Intervene(r, p, dir, k, r.v)

\* The hooks of one module boundary fire in registration order; an
\* exception in one of them ends the boundary.
RECURSIVE FireHooks(_, _, _, _, _)
FireHooks(r, hs, p, dir, k) ==
  IF hs = <<>> \/ r.conflict THEN r
  ELSE FireHooks(
         IF Head(hs) = "inc" THEN [r EXCEPT !.g = Increment(@)]
         ELSE ObservationHook(r, p, dir, k),
         Tail(hs), p, dir, k)

---------------------------------------------------------------------------
\* State.
VARIABLES
  pc,            \* "idle": no __call__ in progress; "running": inside fn;
                 \* "ended": the __call__ is over, by return or by exception
  custom_model,  \* self.custom_model
  dispatched,    \* self.dispatched
  local_model,   \* self.local_model: "none" or "host"
  edits,         \* self.edits
  metaTree,      \* structure of meta_model, the shape-only mirror
  hostTree,      \* structure of local_model, the live host
  mode,          \* "train" or "eval": the live host's mode
  hooks,         \* the hooks on the live host
  graph,         \* the Graph given to __call__: its content and per-run state
  callArg,       \* the edits argument of the current __call__
  callEdits,     \* the Edits of the Editor scope of the current __call__
  hookPaths,     \* the modules of the HookModel scope of the current __call__
  inference,     \* the inference argument of the current __call__
  nSteps,        \* decoding steps fn performs
  shared,        \* whether the host calls l0 twice per step
  hostIter,      \* decoding steps fn has completed
  pos,           \* next module boundary within the current step
  obsLog,        \* the observations intervene handled so far while fn runs
  act,           \* the value the host went on with after the last module boundary
  lastSeen,      \* the observations intervene handled at the last module boundary
  editLog,       \* apply/revert events of the current Editor scope
  fnInvoked,     \* whether the current __call__ invoked fn
  entryTree,     \* hostTree when the current __call__ began
  entryHooks,    \* hooks when the current __call__ began
  err,           \* how the __call__ ended
  scanLog,       \* the _scan calls so far: what the mirror was at each
  loads,         \* _load_local calls that returned
  loadInvoked    \* whether _load_local was ever called

vars == <<pc, custom_model, dispatched, local_model, edits, metaTree, hostTree,
          mode, hooks, graph, callArg, callEdits, hookPaths, inference, nSteps,
          shared, hostIter, pos, obsLog, act, lastSeen, editLog, fnInvoked, entryTree,
          entryHooks, err, scanLog, loads, loadInvoked>>

modelVars == <<custom_model, edits, metaTree, scanLog>>
loadVars == <<dispatched, local_model, loads, loadInvoked>>
runVars == <<nSteps, shared, hostIter, pos, act, lastSeen>>

\* The steps of __init__ after the fields are set: the mirror is loaded
\* (lines 70-83), its children are wrapped (85-89), every module gets its
\* module_path (91-93), the scan runs (95-96).
InitStepsScanFirst == <<"scan", "meta_model", "wrap", "module_path">>

InitSteps == <<"meta_model", "wrap", "module_path", "scan">>

\* A _scan call on a mirror in state st, recorded.
Scanned(st) ==
  Append(st.scans, [mirror |-> st.mirror, paths |-> st.paths, tree |-> st.tree])

RECURSIVE RunInit(_, _)
RunInit(st, steps) ==
  IF steps = <<>> THEN st
  ELSE RunInit(
         CASE Head(steps) = "meta_model" -> [st EXCEPT !.mirror = TRUE]
           [] Head(steps) = "module_path" -> [st EXCEPT !.paths = st.mirror]
           [] Head(steps) = "scan" -> [st EXCEPT !.scans = Scanned(st)]
           [] OTHER -> st,
         Tail(steps))

Constructed ==
  RunInit([mirror |-> FALSE, paths |-> FALSE, tree |-> <<>>, scans |-> <<>>], InitSteps)

\* __init__
Init ==
  /\ pc = "idle"
  /\ custom_model \in BOOLEAN
  /\ dispatched = custom_model
  /\ local_model = IF custom_model THEN "host" ELSE "none"
  /\ edits = <<>>
  /\ metaTree = Constructed.tree
  /\ scanLog = Constructed.scans
  /\ loads = 0
  /\ loadInvoked = FALSE
  /\ hostTree = <<>>
  /\ mode = "train"
  /\ hooks = NoHooks
  /\ graph = Compiled(1)
  /\ callArg = [given |-> FALSE, list |-> <<>>]
  /\ callEdits = <<>>
  /\ hookPaths = {}
  /\ inference = TRUE
  /\ nSteps = 1
  /\ shared = FALSE
  /\ hostIter = 0
  /\ pos = 1
  /\ obsLog = {}
  /\ act = 0
  /\ lastSeen = {}
  /\ editLog = <<>>
  /\ fnInvoked = FALSE
  /\ entryTree = <<>>
  /\ entryHooks = NoHooks
  /\ err = "none"

---------------------------------------------------------------------------
\* modulize(module, node_name, module_name) with module_name "w".
ModulizeEdits(m) == <<WME(m, "w"), GE(m)>>

\* The model the two Edits are carried out on: wme.edit(self.meta_model),
\* ge.edit(self.meta_model).
EditTargetLocal == "local_model"

EditTarget == "meta_model"

Edited(tree, m) == ApplyEdit(ApplyEdit(tree, ModulizeEdits(m)[1]), ModulizeEdits(m)[2])

\* self.edits.append(wme); self.edits.append(ge)
RecordEdits(es, m) == Append(Append(es, ModulizeEdits(m)[1]), ModulizeEdits(m)[2])

IsWme(e) == e.kind = "wme"

\* The modulize calls so far: each carried out its WrapperModuleEdit.
ModulizeCalls == Len(SelectSeq(metaTree, IsWme)) + Len(SelectSeq(hostTree, IsWme))

Modulize(m) ==
  /\ pc = "idle"
  /\ ModulizeCalls < MaxModulize
  /\ metaTree' = IF EditTarget = "meta_model" THEN Edited(metaTree, m) ELSE metaTree
  /\ hostTree' = IF EditTarget = "local_model" THEN Edited(hostTree, m) ELSE hostTree
  /\ edits' = RecordEdits(edits, m)
  /\ UNCHANGED <<pc, custom_model, scanLog, loadVars, mode, hooks,
                 graph, callArg, callEdits, hookPaths, inference, nSteps, shared,
                 hostIter, pos, obsLog, act, lastSeen, editLog, fnInvoked, entryTree,
                 entryHooks, err>>

\* modulize with a node_name that is not in module.graph.nodes: line 278
\* raises after the WrapperModuleEdit was carried out at line 270.
ModulizeFails(m) ==
  /\ pc = "idle"
  /\ ModulizeCalls < MaxModulize
  /\ metaTree' = IF EditTarget = "meta_model"
                 THEN ApplyEdit(metaTree, ModulizeEdits(m)[1]) ELSE metaTree
  /\ hostTree' = IF EditTarget = "local_model"
                 THEN ApplyEdit(hostTree, ModulizeEdits(m)[1]) ELSE hostTree
  /\ UNCHANGED <<pc, custom_model, edits, scanLog, loadVars, mode, hooks,
                 graph, callArg, callEdits, hookPaths, inference, nSteps, shared,
                 hostIter, pos, obsLog, act, lastSeen, editLog, fnInvoked, entryTree,
                 entryHooks, err>>

\* generate(...) and forward(...) return a Generator and a Runner made for
\* this model; the model is as it was.
Generate ==
  /\ pc = "idle"
  /\ UNCHANGED vars

Forward ==
  /\ pc = "idle"
  /\ UNCHANGED vars

---------------------------------------------------------------------------
\* __call__(fn, inputs, graph, edits=e, inference=inf).
NoEdits == [given |-> FALSE, list |-> <<>>]
Given(l) == [given |-> TRUE, list |-> l]

\* The edits arguments tried.
EditArgs ==
  {NoEdits,
   Given(<<WME(L0, "w"), GE(L0), WME(Missing, "w")>>),
   Given(<<WME(L0, "w"), WME(L0W, "v"), GE(L0)>>)}

RECURSIVE DropSamePath(_)
DropSamePath(l) ==
  IF l = <<>> THEN <<>>
  ELSE LET r == DropSamePath(SubSeq(l, 1, Len(l) - 1))
       IN IF \E i \in 1..Len(r) : r[i].path = l[Len(l)].path
          THEN r ELSE Append(r, l[Len(l)])

EditsArgDistinctPaths(e) == DropSamePath(IF e.given THEN e.list ELSE edits)

\* if edits is None: edits = self.edits
EditsArg(e) == IF e.given THEN e.list ELSE edits

\* Leaving the `with Editor(...)` block, by its end or by an exception.
WithEditorExitNormalOnly(st, es, raised) == IF raised THEN st ELSE EditorExit(st, es)

WithEditorExit(st, es, raised) == EditorExit(st, es)

\* Leaving the `with HookModel(...)` block, by its end or by an exception.
WithHookModelExitNormalOnly(h, ms, raised) == IF raised THEN h ELSE HookModelExit(h, ms)

WithHookModelExit(h, ms, raised) == HookModelExit(h, ms)

\* increment_hook.remove() is the statement after the HookModel block: it
\* runs only when the block ended without an exception.
IncrementHookExit(h, raised) == IF raised THEN h ELSE RemoveIncrementHook(h)

\* self.local_model.eval() if inference else self.local_model.train()
ModeForEval(inf) == "eval"

ModeFor(inf) == IF inf THEN "eval" ELSE "train"

CallBegins == pc = "idle" /\ IncCount(hooks) < MaxIncHooks

\* A __call__ that ends before its HookModel scope has no execution.
NoRun ==
  /\ hookPaths' = {} /\ nSteps' = 1 /\ shared' = FALSE /\ hostIter' = 0 /\ pos' = 1
  /\ act' = 0 /\ lastSeen' = {}

\* The Editor scope as entered for edits argument e.
Entered(e) == EditorEnter(hostTree, EditsArg(e))

\* if not self.dispatched
NeedsLoadAlways == TRUE

NeedsLoad == ~dispatched

Bump(n) == IF n < 2 THEN n + 1 ELSE n

\* local_model after the load of lines 141-151.
Loaded == IF NeedsLoad THEN "host" ELSE local_model

\* Lines 141-151 when _load_local returns.
LoadDone ==
  /\ dispatched' = TRUE
  /\ local_model' = Loaded
  /\ loads' = IF NeedsLoad THEN Bump(loads) ELSE loads
  /\ loadInvoked' = (loadInvoked \/ NeedsLoad)

\* An exception inside the Editor scope, before the HookModel scope: the
\* hooks are h, the error is what.
RaiseInScope(e, h, what) ==
  LET x == WithEditorExit(Entered(e), EditsArg(e), TRUE)
  IN /\ hostTree' = x.tree
     /\ editLog' = x.log
     /\ hooks' = h
     /\ err' = what
     /\ callArg' = e
     /\ callEdits' = EditsArg(e)
     /\ LoadDone
     /\ entryTree' = hostTree
     /\ entryHooks' = hooks
     /\ fnInvoked' = FALSE
     /\ obsLog' = {}
     /\ NoRun
     /\ pc' = "ended"
     /\ UNCHANGED modelVars

\* _load_local raises.
CallLoadFails ==
  /\ CallBegins
  /\ NeedsLoad
  /\ loadInvoked' = TRUE
  /\ err' = "LoadError"
  /\ entryTree' = hostTree
  /\ entryHooks' = hooks
  /\ fnInvoked' = FALSE
  /\ obsLog' = {}
  /\ editLog' = <<>>
  /\ callArg' = NoEdits
  /\ callEdits' = <<>>
  /\ NoRun
  /\ pc' = "ended"
  /\ UNCHANGED <<dispatched, local_model, loads, hostTree, mode, hooks, graph,
                 inference, modelVars>>

\* The apply of an Edit raises in the Editor's entry.
CallApplyFails(e) ==
  /\ CallBegins
  /\ Entered(e).failed # 0
  /\ hostTree' = Entered(e).tree
  /\ editLog' = Entered(e).log
  /\ callArg' = e
  /\ callEdits' = EditsArg(e)
  /\ err' = "EditError"
  /\ LoadDone
  /\ UNCHANGED mode
  /\ entryTree' = hostTree
  /\ entryHooks' = hooks
  /\ fnInvoked' = FALSE
  /\ obsLog' = {}
  /\ NoRun
  /\ pc' = "ended"
  /\ UNCHANGED <<hooks, graph, inference, modelVars>>

\* _register_increment_hook raises.
CallRegisterFails(e) ==
  /\ CallBegins
  /\ Entered(e).failed = 0
  /\ RaiseInScope(e, hooks, "HookError")
  /\ UNCHANGED <<graph, mode, inference>>

\* graph.compile raises: the host lacks a referenced module path.
CallCompileFails(e, g) ==
  /\ CallBegins
  /\ Entered(e).failed = 0
  /\ ~CompileOk(g, Entered(e).tree)
  /\ RaiseInScope(e, IncrementHookExit(RegisterIncrementHook(hooks), TRUE), "CompileError")
  /\ UNCHANGED <<graph, mode, inference>>

\* _prepare_inputs raises.
CallPrepareFails(e, g, inf) ==
  /\ CallBegins
  /\ Entered(e).failed = 0
  /\ CompileOk(g, Entered(e).tree)
  /\ RaiseInScope(e, IncrementHookExit(RegisterIncrementHook(hooks), TRUE), "InputError")
  /\ graph' = Compiled(g)
  /\ mode' = ModeFor(inf)
  /\ inference' = inf

\* Lines 137-187: everything up to the invocation of fn.
CallStart(e, g, inf, n, sh) ==
  /\ CallBegins
  /\ Entered(e).failed = 0
  /\ CompileOk(g, Entered(e).tree)
  /\ pc' = "running"
  /\ LoadDone
  /\ hostTree' = Entered(e).tree
  /\ editLog' = Entered(e).log
  /\ callArg' = e
  /\ callEdits' = EditsArg(e)
  /\ graph' = Compiled(g)
  /\ mode' = ModeFor(inf)
  /\ inference' = inf
  /\ hookPaths' = Modules(g)
  /\ hooks' = HookModelEnter(RegisterIncrementHook(hooks), Modules(g))
  /\ nSteps' = n
  /\ shared' = sh
  /\ hostIter' = 0
  /\ pos' = 1
  /\ obsLog' = {}
  /\ act' = 0
  /\ lastSeen' = {}
  /\ fnInvoked' = TRUE
  /\ entryTree' = hostTree
  /\ entryHooks' = hooks
  /\ err' = "none"
  /\ UNCHANGED modelVars

\* The hooks of the next module boundary of fn, fired.
Fired ==
  LET ev == StepEvents(hostTree, shared)[pos]
      hs == IF ev.dir = "input" THEN hooks.pre[ev.path] ELSE hooks.fwd[ev.path]
  IN FireHooks([g |-> graph, log |-> obsLog,
                v |-> HostValue(ev.path, ev.dir, hostIter, act),
                seen |-> {}, conflict |-> FALSE],
               hs, ev.path, ev.dir, hostIter)

\* fn: the host reaches its next module boundary and the hooks there fire.
HostEvent ==
  /\ pc = "running"
  /\ hostIter < nSteps
  /\ ~Fired.conflict
  /\ graph' = Fired.g
  /\ obsLog' = Fired.log
  /\ act' = Fired.v
  /\ lastSeen' = Fired.seen
  /\ IF pos = Len(StepEvents(hostTree, shared))
     THEN hostIter' = hostIter + 1 /\ pos' = 1
     ELSE hostIter' = hostIter /\ pos' = pos + 1
  /\ UNCHANGED <<pc, loadVars, hostTree, mode, hooks, callArg, callEdits,
                 hookPaths, inference, nSteps, shared, editLog, fnInvoked,
                 entryTree, entryHooks, err, modelVars>>

\* The way out of the two scopes; raised: by an exception inside fn, what.
CallEnds(raised, what) ==
  LET x == WithEditorExit([tree |-> hostTree, log |-> editLog, failed |-> 0],
                          callEdits, raised)
  IN /\ pc' = "ended"
     /\ hooks' = IncrementHookExit(WithHookModelExit(hooks, hookPaths, raised), raised)
     /\ mode' = IF raised THEN mode ELSE "eval"
     /\ hostTree' = x.tree
     /\ editLog' = x.log
     /\ err' = what
     /\ hostIter' = 0
     /\ pos' = 1
     /\ act' = 0
     /\ shared' = FALSE
     /\ UNCHANGED <<loadVars, callArg, callEdits, hookPaths, inference,
                    nSteps, fnInvoked, entryTree, entryHooks, modelVars>>

\* fn: intervene raises ConflictingWriteback at the next module boundary.
HostConflict ==
  /\ pc = "running"
  /\ hostIter < nSteps
  /\ Fired.conflict
  /\ graph' = Fired.g
  /\ obsLog' = Fired.seen
  /\ lastSeen' = Fired.seen
  /\ CallEnds(TRUE, "ConflictingWriteback")

\* fn raises.
HostRaise ==
  /\ pc = "running"
  /\ hostIter < nSteps
  /\ obsLog' = {}
  /\ lastSeen' = {}
  /\ CallEnds(TRUE, "FnError")
  /\ UNCHANGED graph

\* fn returns: lines 188-196.
CallReturn ==
  /\ pc = "running"
  /\ hostIter = nSteps
  /\ obsLog' = {}
  /\ lastSeen' = {}
  /\ CallEnds(FALSE, "none")
  /\ UNCHANGED graph

\* Control is back at the caller, with the output of line 196 or with the
\* exception: what belonged to the __call__ is gone.
CallLeaves ==
  /\ pc = "ended"
  /\ pc' = "idle"
  /\ graph' = Compiled(1)
  /\ callArg' = NoEdits
  /\ callEdits' = <<>>
  /\ hookPaths' = {}
  /\ inference' = TRUE
  /\ nSteps' = 1
  /\ obsLog' = {}
  /\ lastSeen' = {}
  /\ editLog' = <<>>
  /\ fnInvoked' = FALSE
  /\ entryTree' = hostTree
  /\ entryHooks' = hooks
  /\ err' = "none"
  /\ UNCHANGED <<loadVars, hostTree, mode, hooks, shared, hostIter, pos, act, modelVars>>

Next ==
  \/ \E m \in {L0, L1} : Modulize(m)
  \/ ModulizeFails(L0)
  \/ Generate
  \/ Forward
  \/ CallLoadFails
  \/ \E e \in EditArgs : CallApplyFails(e)
  \/ \E e \in EditArgs : CallRegisterFails(e)
  \/ \E e \in EditArgs, g \in GraphIds : CallCompileFails(e, g)
  \/ \E e \in EditArgs, g \in GraphIds, inf \in BOOLEAN : CallPrepareFails(e, g, inf)
  \/ \E e \in EditArgs, g \in GraphIds, inf \in BOOLEAN, n \in {1, MaxSteps}, sh \in BOOLEAN :
       CallStart(e, g, inf, n, sh)
  \/ HostEvent
  \/ HostConflict
  \/ HostRaise
  \/ CallReturn
  \/ CallLeaves

Spec == Init /\ [][Next]_vars

---------------------------------------------------------------------------
\* Properties.

\* C1: after every __call__, however it ended, the live host's structure is
\* the one it had when the call began: every applied Edit is reverted.
C1_HostStructureRestored == pc = "ended" => hostTree = entryTree

\* fn raised inside an Editor scope that had applied Edits.
C1_Witness ==
  pc = "ended" /\ err = "FnError" /\ callEdits # <<>> /\ Len(editLog) = 2 * Len(callEdits)

\* C2: when a __call__ has ended, by return or by exception, none of its
\* observation hooks is on the host, and detaching again changes nothing.
C2_ObservationHooksDetached ==
  pc = "ended" =>
    /\ ObsFwd(hooks) = {}
    /\ ObsPre(hooks) = {}
    /\ HookModelExit(hooks, hookPaths) = hooks

\* fn raised while observation hooks were attached.
C2_Witness == pc = "ended" /\ err = "FnError" /\ hookPaths # {}

\* C3: when a __call__ has ended, by return or by exception, the increment
\* hook it registered is no longer on the host.
C3_IncrementHookDetached == pc = "ended" => IncCount(hooks) = IncCount(entryHooks)

\* C4: every observation of step k is handled by intervene while the
\* iteration counter is k.
C4_IncrementFiresLast == \A o \in obsLog : o.counter = o.iter

\* C5: while fn runs, the iteration counter is the number of decoding steps
\* completed: 0 at the start, one more after each step, never less.
C5_CounterCountsSteps == pc = "running" => graph.counter = hostIter

\* The module paths the Graph has a key for.
Referenced(g) ==
  {p \in AllPaths \cup {Missing} :
     \E d \in {"input", "output"}, k \in 0..(MaxSteps * MaxIncHooks) :
       Key(p, d, k) \in Keys(g)}

\* C6: while fn runs, the observation hooks are on exactly the modules the
\* Graph references, and intervene is triggered by no other module.
C6_HooksOnReferencedModulesOnly ==
  /\ pc = "running" =>
       /\ ObsFwd(hooks) = Referenced(graph.id)
       /\ ObsPre(hooks) = Referenced(graph.id)
  /\ \A o \in obsLog : o.path \in Referenced(graph.id)

\* A whole step has run, through referenced and unreferenced modules.
C6_Witness == pc = "running" /\ hostIter >= 1 /\ obsLog # {}

\* C7: a __call__ that ended in a compile error invoked no fn, attached no
\* observation hook, and left no hook and no Edit of its own on the host.
C7_CompileErrorHasNoSideEffect ==
  (pc = "ended" /\ err = "CompileError") =>
    /\ ~fnInvoked
    /\ ObsFwd(hooks) = {}
    /\ ObsPre(hooks) = {}
    /\ hooks = entryHooks
    /\ hostTree = entryTree

Applies(k) == [i \in 1..k |-> <<"apply", i>>]
Reverts(k) == [i \in 1..k |-> <<"revert", k + 1 - i>>]

\* C9: the Editor applies in list order and reverts in reverse order; when
\* an apply fails, the applied prefix is reverted, in reverse order.
C9_EditorOrder ==
  /\ pc = "running" => editLog = Applies(Len(callEdits))
  /\ pc = "ended" =>
       \E k \in 0..Len(callEdits) :
         /\ editLog = Applies(k) \o Reverts(k)
         /\ (err = "EditError") <=> (k < Len(callEdits))

\* The third apply failed and the two applied Edits were reverted.
C9_Witness ==
  /\ pc = "ended"
  /\ err = "EditError"
  /\ editLog = <<<<"apply", 1>>, <<"apply", 2>>, <<"revert", 2>>, <<"revert", 1>>>>

C11_AtMostOneWriteback ==
  /\ pc = "running" =>
       \A o \in lastSeen :
         /\ Cardinality(o.applied) <= 1
         /\ o.applied = {} => act = o.observed
         /\ \A a \in o.applied : act = a[2]
  /\ \A o \in obsLog :
       /\ Cardinality(o.applied) > 1 <=> o.raised
       /\ o.raised => pc = "ended" /\ err = "ConflictingWriteback"
  /\ err = "ConflictingWriteback" => \E o \in obsLog : Cardinality(o.applied) > 1

\* The host goes on with the result of the one write-back that fired.
C11_Witness ==
  /\ pc = "running"
  /\ \E o \in lastSeen : Cardinality(o.applied) = 1 /\ act # o.observed

\* C12: a Node bound to l0's output at iteration 1 only ends a 3-step
\* execution with one value, the one observed at step 1, and a 1-step
\* execution without a value, the call having returned normally.
C12_IterationOneNode ==
  (pc = "ended" /\ err = "none" /\ fnInvoked /\ graph.id = 3) =>
    /\ nSteps = 3 =>
         /\ graph.value["a"] = <<HostValue(L0, "output", 1, HostValue(Root, "input", 1, 0)), 1>>
         /\ \A f \in BagToSet(graph.fires) : f.node = "a" => f.it = 1 /\ CopiesIn(f, graph.fires) = 1
    /\ nSteps = 1 => graph.value["a"] = NoValue

\* C13: _scan has run exactly once, in __init__, on a mirror that was built,
\* had every module_path set and had no Edit applied; nothing runs it again.
C13_ScanOnceAtConstruction ==
  /\ Len(scanLog) = 1
  /\ scanLog[1] = [mirror |-> TRUE, paths |-> TRUE, tree |-> <<>>]

\* fn runs after a modulize: both came after the one scan.
C13_Witness == pc = "running" /\ metaTree # <<>> /\ Len(scanLog) = 1

\* C14: _load_local returns at most once and is never called for a model made
\* from a torch module; dispatched implies local_model is set; a failed load
\* leaves dispatched false, and the next __call__ loads again.
C14_LoadedOnFirstUse ==
  /\ [](/\ loads <= 1
        /\ custom_model => (~loadInvoked /\ loads = 0)
        /\ dispatched => local_model = "host"
        /\ (pc = "ended" /\ err = "LoadError") => (~dispatched /\ local_model = "none"))
  /\ [][(~dispatched /\ pc = "idle" /\ edits' = edits /\ metaTree' = metaTree) =>
          (/\ loadInvoked'
           /\ IF dispatched' THEN loads' = loads + 1 /\ local_model' = "host"
              ELSE err' = "LoadError" /\ loads' = loads)]_vars

\* fn runs on a host that _load_local returned.
C14_Witness == pc = "running" /\ ~custom_model /\ dispatched /\ loads = 1

\* C15: while fn runs in a __call__ given no edits, the Edits applied to the
\* live host are those carried out on the mirror, in the same order.
C15_HostEditedAsMirror == (pc = "running" /\ ~callArg.given) => hostTree = metaTree

IsPrefixOf(a, b) == Len(a) <= Len(b) /\ SubSeq(b, 1, Len(a)) = a

C17_ModeFollowsInference ==
  /\ pc = "running" => mode = (IF inference THEN "eval" ELSE "train")
  /\ (pc = "ended" /\ fnInvoked /\ err = "none") => mode = "eval"

\* A __call__ with inference false has returned.
C17_Witness ==
  pc = "ended" /\ fnInvoked /\ err = "none" /\ ~inference /\ mode = "eval"

====
